---- MODULE Spec2Model ----
(***************************************************************************)
(* Inventory store of src/inventory-system/main.py: the Product record,    *)
(* the InventoryManager mapping (a Python dict, kept here in insertion     *)
(* order), the JSON backing file, and the CRUD / query methods.            *)
(*                                                                         *)
(* Python strings that the code inspects character by character (name,     *)
(* category, search query) are sequences of one-character strings.         *)
(* Product ids are atomic strings.  A price is a number of cents.          *)
(* A last_updated value is the number of the second it was stamped in;     *)
(* NoStamp stands for a falsy last_updated (None, JSON null or "").        *)
(***************************************************************************)
EXTENDS Integers, Sequences, FiniteSets, TLC

VARIABLES
    file,       \* content of the backing file (self.file_path)
    products,   \* self.products of the live InventoryManager, in dict order
    alive,      \* TRUE once an InventoryManager has been constructed
    clock,      \* wall clock, in sub-second ticks
    last        \* the last call made: what was called, with what, and its outcome

vars == <<file, products, alive, clock, last>>

----------------------------------------------------------------------------
(* Bounds *)

MaxClock == 2
TicksPerSecond == 2

(* Program constants *)

DefaultThreshold == 5
NoStamp == 0

----------------------------------------------------------------------------
(* Strings *)

Upper == <<"A","B","C","D","E","F","G","H","I","J","K","L","M",
           "N","O","P","Q","R","S","T","U","V","W","X","Y","Z">>
Lower == <<"a","b","c","d","e","f","g","h","i","j","k","l","m",
           "n","o","p","q","r","s","t","u","v","w","x","y","z">>

\* one character of str.lower()
LowerChar(c) ==
    IF \E i \in DOMAIN Upper : Upper[i] = c
    THEN Lower[CHOOSE i \in DOMAIN Upper : Upper[i] = c]
    ELSE c

\* str.lower()
lower(s) == [i \in DOMAIN s |-> LowerChar(s[i])]

\* Python's `q in s` on strings: q occurs in s at some offset
StrIn(q, s) ==
    \E off \in 0..(Len(s) - Len(q)) : SubSeq(s, off + 1, off + Len(q)) = q

Widget == <<"W","i","d","g","e","t">>
Gadget == <<"G","a","d","g","e","t">>
EmptyStr == <<>>
Other == <<"O","t","h","e","r">>
Food == <<"F","o","o","d">>

----------------------------------------------------------------------------
(* The clock *)

\* datetime.now().strftime("%Y-%m-%d %H:%M:%S"): the second the tick falls in
strftime(c) == 1 + (c \div TicksPerSecond)

----------------------------------------------------------------------------
(* Python dict, as the sequence of its items in insertion order *)

Has(d, k) == \E i \in DOMAIN d : d[i].key = k

IndexOf(d, k) == CHOOSE i \in DOMAIN d : d[i].key = k

\* d[k]
GetItem(d, k) == d[IndexOf(d, k)].val

\* d[k] = v : a present key keeps its position, a new key goes last
SetItem(d, k, v) ==
    IF Has(d, k)
    THEN [d EXCEPT ![IndexOf(d, k)] = [key |-> k, val |-> v]]
    ELSE Append(d, [key |-> k, val |-> v])

\* del d[k]
DelItem(d, k) == SelectSeq(d, LAMBDA e : e.key # k)

\* d.values()
Values(d) == [i \in DOMAIN d |-> d[i].val]

Keys(d) == {d[i].key : i \in DOMAIN d}

----------------------------------------------------------------------------
(* Product *)

FieldNames == <<"product_id", "name", "category", "quantity", "price", "last_updated">>

\* Product.__init__: a falsy last_updated is replaced by the current time
Product(product_id, name, category, quantity, price, last_updated, now) ==
    [product_id   |-> product_id,
     name         |-> name,
     category     |-> category,
     quantity     |-> quantity,
     price        |-> price,
     last_updated |-> IF last_updated # NoStamp THEN last_updated ELSE strftime(now)]

\* Product.to_dict: the JSON object of a product
to_dict(p) ==
    [t |-> "object",
     fields |-> [product_id   |-> p.product_id,
                 name         |-> p.name,
                 category     |-> p.category,
                 quantity     |-> p.quantity,
                 price        |-> p.price,
                 last_updated |-> p.last_updated]]

\* data[k] for each of the six keys, in the order from_dict reads them:
\* the first one missing raises KeyError; data that is no dict raises
\* TypeError at the first subscript
from_dict_error(data) ==
    IF data.t # "object" THEN "TypeError"
    ELSE IF \E i \in DOMAIN FieldNames : FieldNames[i] \notin DOMAIN data.fields
         THEN "KeyError"
         ELSE ""

\* from_dict that does not hand last_updated on to the constructor
from_dict_restamp(data, now) ==
    Product(data.fields.product_id, data.fields.name, data.fields.category,
            data.fields.quantity, data.fields.price, NoStamp, now)

\* Product.from_dict on data that has the six keys
from_dict(data, now) ==
    Product(data.fields.product_id, data.fields.name, data.fields.category,
            data.fields.quantity, data.fields.price, data.fields.last_updated, now)

----------------------------------------------------------------------------
(* The backing file.  kind is "absent" (no file), "undecodable" (bytes     *)
(* that are no text in the locale's encoding), "invalid" (text that is no  *)
(* JSON document, the empty file included) or "json"; doc is the JSON      *)
(* document: its type and, for an object, its members in file order.       *)

NoDoc == [t |-> "none", members |-> <<>>]

FileOf(kind, doc) == [kind |-> kind, doc |-> doc]

\* InventoryManager.save_inventory: the whole mapping, overwriting the file
save_inventory(ps) ==
    FileOf("json",
           [t |-> "object",
            members |-> [i \in DOMAIN ps |->
                            [key |-> ps[i].key, val |-> to_dict(ps[i].val)]]])

\* the dict comprehension of load_inventory over data.items(), item by item:
\* the first item from_dict fails on ends it with that exception
RECURSIVE LoadItems(_, _, _)
LoadItems(members, acc, now) ==
    IF members = <<>> THEN [exc |-> "", d |-> acc]
    ELSE LET m == Head(members)
             e == from_dict_error(m.val)
         IN IF e # "" THEN [exc |-> e, d |-> <<>>]
            ELSE LoadItems(Tail(members), SetItem(acc, m.key, from_dict(m.val, now)), now)

\* InventoryManager.load_inventory on a store holding ps.
\* raised: the exception that leaves the method ("" when it returns);
\* diag: st.error was called.
load_inventory(ps, f, now) ==
    IF f.kind = "absent"
    THEN [products |-> ps, raised |-> "", diag |-> FALSE]
    ELSE IF f.kind = "undecodable"
    THEN [products |-> ps, raised |-> "UnicodeDecodeError", diag |-> FALSE]
    ELSE IF f.kind = "invalid"
    THEN [products |-> <<>>, raised |-> "", diag |-> TRUE]
    ELSE IF f.doc.t # "object"
    THEN [products |-> ps, raised |-> "AttributeError", diag |-> FALSE]
    ELSE LET r == LoadItems(f.doc.members, <<>>, now)
         IN IF r.exc = ""         THEN [products |-> r.d, raised |-> "", diag |-> FALSE]
            ELSE IF r.exc = "KeyError" THEN [products |-> <<>>, raised |-> "", diag |-> TRUE]
            ELSE [products |-> ps, raised |-> r.exc, diag |-> FALSE]

----------------------------------------------------------------------------
(* Optional arguments: None is the empty sequence, a supplied value v is <<v>> *)

None == <<>>
Some(v) == <<v>>

----------------------------------------------------------------------------
(* InventoryManager methods, as functions of the mapping, the file and the  *)
(* arguments.  Each gives the mapping and file it leaves, what it returns   *)
(* and how many times it called save_inventory.                             *)

\* add_product that stores the product before looking for its id
add_product_overwrite(ps, f, product) ==
    IF Has(ps, product.product_id)
    THEN [products |-> SetItem(ps, product.product_id, product), file |-> f,
          ret |-> FALSE, saves |-> 0]
    ELSE LET ps2 == SetItem(ps, product.product_id, product)
         IN [products |-> ps2, file |-> save_inventory(ps2), ret |-> TRUE, saves |-> 1]

\* add_product that rebinds self.products to the new product alone
add_product_alone(ps, f, product) ==
    IF Has(ps, product.product_id)
    THEN [products |-> ps, file |-> f, ret |-> FALSE, saves |-> 0]
    ELSE LET ps2 == SetItem(<<>>, product.product_id, product)
         IN [products |-> ps2, file |-> save_inventory(ps2), ret |-> TRUE, saves |-> 1]

\* InventoryManager.add_product
add_product(ps, f, product) ==
    IF Has(ps, product.product_id)
    THEN [products |-> ps, file |-> f, ret |-> FALSE, saves |-> 0]
    ELSE LET ps2 == SetItem(ps, product.product_id, product)
         IN [products |-> ps2, file |-> save_inventory(ps2), ret |-> TRUE, saves |-> 1]

\* update_product that tests its arguments for truth (`if quantity:`)
\* instead of `is not None`
update_product_truthy(ps, f, product_id, name, category, quantity, price, now) ==
    IF ~Has(ps, product_id)
    THEN [products |-> ps, file |-> f, ret |-> FALSE, saves |-> 0]
    ELSE LET p0 == GetItem(ps, product_id)
             p1 == IF name # None /\ name # Some(EmptyStr)
                   THEN [p0 EXCEPT !.name = name[1]] ELSE p0
             p2 == IF category # None /\ category # Some(EmptyStr)
                   THEN [p1 EXCEPT !.category = category[1]] ELSE p1
             p3 == IF quantity # None /\ quantity # Some(0)
                   THEN [p2 EXCEPT !.quantity = quantity[1]] ELSE p2
             p4 == IF price # None /\ price # Some(0)
                   THEN [p3 EXCEPT !.price = price[1]] ELSE p3
             p5 == [p4 EXCEPT !.last_updated = strftime(now)]
             ps2 == SetItem(ps, product_id, p5)
         IN [products |-> ps2, file |-> save_inventory(ps2), ret |-> TRUE, saves |-> 1]

\* InventoryManager.update_product
update_product(ps, f, product_id, name, category, quantity, price, now) ==
    IF ~Has(ps, product_id)
    THEN [products |-> ps, file |-> f, ret |-> FALSE, saves |-> 0]
    ELSE LET p0 == GetItem(ps, product_id)
             p1 == IF name # None     THEN [p0 EXCEPT !.name = name[1]] ELSE p0
             p2 == IF category # None THEN [p1 EXCEPT !.category = category[1]] ELSE p1
             p3 == IF quantity # None THEN [p2 EXCEPT !.quantity = quantity[1]] ELSE p2
             p4 == IF price # None    THEN [p3 EXCEPT !.price = price[1]] ELSE p3
             p5 == [p4 EXCEPT !.last_updated = strftime(now)]
             ps2 == SetItem(ps, product_id, p5)
         IN [products |-> ps2, file |-> save_inventory(ps2), ret |-> TRUE, saves |-> 1]

\* delete_product that does not call save_inventory
delete_product_unsaved(ps, f, product_id) ==
    IF ~Has(ps, product_id)
    THEN [products |-> ps, file |-> f, ret |-> FALSE, saves |-> 0]
    ELSE [products |-> DelItem(ps, product_id), file |-> f, ret |-> TRUE, saves |-> 0]

\* delete_product that saves and returns True without removing the entry
delete_product_keeps(ps, f, product_id) ==
    IF ~Has(ps, product_id)
    THEN [products |-> ps, file |-> f, ret |-> FALSE, saves |-> 0]
    ELSE [products |-> ps, file |-> save_inventory(ps), ret |-> TRUE, saves |-> 1]

\* InventoryManager.delete_product
delete_product(ps, f, product_id) ==
    IF ~Has(ps, product_id)
    THEN [products |-> ps, file |-> f, ret |-> FALSE, saves |-> 0]
    ELSE LET ps2 == DelItem(ps, product_id)
         IN [products |-> ps2, file |-> save_inventory(ps2), ret |-> TRUE, saves |-> 1]

\* InventoryManager.get_product: self.products.get(product_id)
get_product(ps, product_id) ==
    IF Has(ps, product_id) THEN Some(GetItem(ps, product_id)) ELSE None

\* get_low_stock_products with `<` for `<=`
get_low_stock_products_strict(ps, threshold) ==
    SelectSeq(Values(ps), LAMBDA p : p.quantity < threshold)

\* InventoryManager.get_low_stock_products
get_low_stock_products(ps, threshold) ==
    SelectSeq(Values(ps), LAMBDA p : p.quantity <= threshold)

\* search_products that does not lower-case the query
search_products_rawquery(ps, query) ==
    SelectSeq(Values(ps),
              LAMBDA p : StrIn(query, lower(p.name)) \/ StrIn(query, lower(p.category)))

\* InventoryManager.search_products
search_products(ps, query) ==
    LET q == lower(query)
    IN SelectSeq(Values(ps),
                 LAMBDA p : StrIn(q, lower(p.name)) \/ StrIn(q, lower(p.category)))

----------------------------------------------------------------------------
(* Inputs *)

Ids == {"P1", "P2"}

\* the products a caller adds: Product(id, name, category, quantity, price)
Catalog ==
    { [product_id |-> "P1", name |-> Widget, category |-> Other, quantity |-> 3,  price |-> 999],
      [product_id |-> "P2", name |-> Gadget, category |-> Food,  quantity |-> 10, price |-> 1250] }

\* the optional arguments update_product is called with
UpdateArgs ==
    { [name |-> None,           category |-> None,       quantity |-> None,     price |-> None],
      [name |-> Some(EmptyStr), category |-> None,       quantity |-> None,     price |-> None],
      [name |-> None,           category |-> Some(Food), quantity |-> None,     price |-> None],
      [name |-> None,           category |-> None,       quantity |-> Some(0),  price |-> None],
      [name |-> None,           category |-> None,       quantity |-> Some(10), price |-> None],
      [name |-> None,           category |-> None,       quantity |-> None,     price |-> Some(1250)],
      [name |-> Some(EmptyStr), category |-> None,       quantity |-> Some(0),  price |-> None],
      [name |-> Some(Widget),   category |-> Some(Food), quantity |-> Some(10), price |-> Some(1250)] }

Thresholds == {3, DefaultThreshold}

Queries == { <<"w","i","d">>, <<"W","I","D">>, <<"G","e","t">>, <<"f","o","o">> }

\* records found in a backing file the store did not write itself
RecP1 ==
    to_dict([product_id |-> "P1", name |-> Widget, category |-> Other,
             quantity |-> 3, price |-> 999, last_updated |-> 1])
RecP2Unstamped ==
    to_dict([product_id |-> "P2", name |-> Gadget, category |-> Food,
             quantity |-> 10, price |-> 1250, last_updated |-> NoStamp])
RecP2Short == [t |-> "object", fields |-> [product_id |-> "P2", name |-> Gadget]]
RecNumber == [t |-> "number", fields |-> <<>>]

Object(members) == [t |-> "object", members |-> members]

\* the backing file the first InventoryManager may find
InitialFiles ==
    { FileOf("absent", NoDoc),
      FileOf("undecodable", NoDoc),
      FileOf("invalid", NoDoc),
      FileOf("json", [t |-> "array", members |-> <<>>]),
      FileOf("json", Object(<<>>)),
      FileOf("json", Object(<<[key |-> "P1", val |-> RecP1],
                              [key |-> "P2", val |-> RecP2Unstamped]>>)),
      FileOf("json", Object(<<[key |-> "P1", val |-> RecP1],
                              [key |-> "P2", val |-> RecP2Short]>>)),
      FileOf("json", Object(<<[key |-> "P1", val |-> RecP1],
                              [key |-> "P2", val |-> RecNumber]>>)),
      FileOf("json", Object(<<[key |-> "P1", val |-> RecP2Unstamped]>>)) }

----------------------------------------------------------------------------
(* The record of the last call *)

NoArgs == [name |-> None, category |-> None, quantity |-> None, price |-> None]

Call(op) ==
    [op |-> op, id |-> "", ok |-> FALSE, raised |-> "", diag |-> FALSE, saves |-> 0,
     out |-> <<>>, args |-> NoArgs, prod |-> None, threshold |-> 0, query |-> EmptyStr]

----------------------------------------------------------------------------
(* State machine *)

Init ==
    /\ file \in InitialFiles
    /\ products = <<>>
    /\ alive = FALSE
    /\ clock = 0
    /\ last = Call("none")

\* time passes
Tick ==
    /\ clock < MaxClock
    /\ clock' = clock + 1
    /\ last' = Call("tick")
    /\ UNCHANGED <<file, products, alive>>

\* InventoryManager(): a new session builds its store from the file.
\* When __init__ raises, the session is left without a store.
Construct ==
    LET r == load_inventory(<<>>, file, clock)
    IN /\ alive' = (r.raised = "")
       /\ products' = IF r.raised = "" THEN r.products ELSE <<>>
       /\ last' = [Call("construct") EXCEPT !.ok = (r.raised = ""),
                                            !.raised = r.raised, !.diag = r.diag]
       /\ UNCHANGED <<file, clock>>

\* the caller builds a Product now and adds it
AddProduct ==
    /\ alive
    /\ \E c \in Catalog :
         LET p == Product(c.product_id, c.name, c.category, c.quantity, c.price,
                          NoStamp, clock)
             r == add_product(products, file, p)
         IN /\ products' = r.products
            /\ file' = r.file
            /\ last' = [Call("add") EXCEPT !.id = p.product_id, !.ok = r.ret,
                                           !.saves = r.saves, !.prod = Some(p)]
    /\ UNCHANGED <<alive, clock>>

UpdateProduct ==
    /\ alive
    /\ \E id \in Ids, a \in UpdateArgs :
         LET r == update_product(products, file, id, a.name, a.category,
                                 a.quantity, a.price, clock)
         IN /\ products' = r.products
            /\ file' = r.file
            /\ last' = [Call("update") EXCEPT !.id = id, !.ok = r.ret, !.saves = r.saves,
                                              !.args = a]
    /\ UNCHANGED <<alive, clock>>

DeleteProduct ==
    /\ alive
    /\ \E id \in Ids :
         LET r == delete_product(products, file, id)
         IN /\ products' = r.products
            /\ file' = r.file
            /\ last' = [Call("delete") EXCEPT !.id = id, !.ok = r.ret, !.saves = r.saves]
    /\ UNCHANGED <<alive, clock>>

GetProduct ==
    /\ alive
    /\ \E id \in Ids :
         last' = [Call("get") EXCEPT !.id = id, !.out = get_product(products, id)]
    /\ UNCHANGED <<file, products, alive, clock>>

GetLowStock ==
    /\ alive
    /\ \E th \in Thresholds :
         last' = [Call("low_stock") EXCEPT !.threshold = th,
                                           !.out = get_low_stock_products(products, th)]
    /\ UNCHANGED <<file, products, alive, clock>>

Search ==
    /\ alive
    /\ \E q \in Queries :
         last' = [Call("search") EXCEPT !.query = q, !.out = search_products(products, q)]
    /\ UNCHANGED <<file, products, alive, clock>>

Next ==
    \/ Tick
    \/ Construct
    \/ AddProduct
    \/ UpdateProduct
    \/ DeleteProduct
    \/ GetProduct
    \/ GetLowStock
    \/ Search

Spec == Init /\ [][Next]_vars

----------------------------------------------------------------------------
(* Failing saves.  save_inventory opens the file with mode 'w', which       *)
(* truncates it, and json.dump then writes the document piece by piece.     *)
(* The call fails either in open (the file is not touched) or after it, in  *)
(* json.dump or the closing flush (the file is left holding a proper prefix *)
(* of the document, possibly nothing, which is no JSON document).           *)

SaveFailures == {"open", "write"}

\* the backing file after a save_inventory that raised
save_inventory_failed(f, how) ==
    IF how = "open" THEN f ELSE FileOf("invalid", NoDoc)

\* the file is what the last save of the current mapping wrote.  A save is
\* taken to fail only from such a state: one failure at a time.
InSync == file = save_inventory(products)

\* add_product whose save_inventory raises: the product is already stored
AddProductSaveFails ==
    /\ alive
    /\ \E c \in Catalog, how \in SaveFailures :
         LET p == Product(c.product_id, c.name, c.category, c.quantity, c.price,
                          NoStamp, clock)
             r == add_product(products, file, p)
         IN /\ InSync
            /\ r.saves = 1
            /\ products' = r.products
            /\ file' = save_inventory_failed(file, how)
            /\ last' = [Call("add") EXCEPT !.id = p.product_id, !.raised = "OSError",
                                           !.saves = r.saves, !.prod = Some(p)]
    /\ UNCHANGED <<alive, clock>>

\* update_product whose save_inventory raises: the product is already changed
UpdateProductSaveFails ==
    /\ alive
    /\ \E id \in Ids, a \in UpdateArgs, how \in SaveFailures :
         LET r == update_product(products, file, id, a.name, a.category,
                                 a.quantity, a.price, clock)
         IN /\ InSync
            /\ r.saves = 1
            /\ products' = r.products
            /\ file' = save_inventory_failed(file, how)
            /\ last' = [Call("update") EXCEPT !.id = id, !.raised = "OSError",
                                              !.saves = r.saves, !.args = a]
    /\ UNCHANGED <<alive, clock>>

\* delete_product whose save_inventory raises: the entry is already removed
DeleteProductSaveFails ==
    /\ alive
    /\ \E id \in Ids, how \in SaveFailures :
         LET r == delete_product(products, file, id)
         IN /\ InSync
            /\ r.saves = 1
            /\ products' = r.products
            /\ file' = save_inventory_failed(file, how)
            /\ last' = [Call("delete") EXCEPT !.id = id, !.raised = "OSError",
                                              !.saves = r.saves]
    /\ UNCHANGED <<alive, clock>>

NextFault ==
    \/ Construct
    \/ AddProduct
    \/ UpdateProduct
    \/ DeleteProduct
    \/ AddProductSaveFails
    \/ UpdateProductSaveFails
    \/ DeleteProductSaveFails

\* the store on a file system whose writes may fail: the mutating calls and
\* the restarts, at one instant of the clock
SpecFault == Init /\ [][NextFault]_vars

----------------------------------------------------------------------------
(* Vocabulary of the properties *)

Mutators == {"add", "update", "delete"}

FieldSet == {"product_id", "name", "category", "quantity", "price", "last_updated"}

\* a and b agree on each of the six fields
SameFields(a, b) ==
    /\ a.product_id = b.product_id
    /\ a.name = b.name
    /\ a.category = b.category
    /\ a.quantity = b.quantity
    /\ a.price = b.price
    /\ a.last_updated = b.last_updated

\* the file f is a JSON object holding exactly the mapping ps
FileHolds(f, ps) ==
    /\ f.kind = "json"
    /\ f.doc.t = "object"
    /\ Len(f.doc.members) = Len(ps)
    /\ {f.doc.members[j].key : j \in DOMAIN f.doc.members} = {ps[i].key : i \in DOMAIN ps}
    /\ \A i \in DOMAIN ps : \A j \in DOMAIN f.doc.members :
         f.doc.members[j].key = ps[i].key =>
            /\ f.doc.members[j].val.t = "object"
            /\ DOMAIN f.doc.members[j].val.fields = FieldSet
            /\ SameFields(f.doc.members[j].val.fields, ps[i].val)

\* the entries of ps stored under keys other than k, in order
Others(ps, k) == SelectSeq(ps, LAMBDA e : e.key # k)

\* C1: whenever add_product, update_product or delete_product has returned
\* True, it saved exactly once and the backing file holds exactly the
\* in-memory mapping: the same product ids and, for each, the same six fields.
C1_WriteThrough ==
    (last.op \in Mutators /\ last.ok) =>
        /\ last.saves = 1
        /\ FileHolds(file, products)

\* a successful delete that left one product behind, which the file holds
C1_Witness ==
    /\ last.op = "delete"
    /\ last.ok
    /\ Len(products) = 1
    /\ Len(file.doc.members) = 1

\* C2: a rejected mutation is a no-op.  add_product with an id already in
\* the store, update_product and delete_product with an absent id return
\* False, save nothing and leave the mapping and the file as they were.
C2_Rejected ==
    \/ last'.op = "add" /\ (\E i \in DOMAIN products : products[i].key = last'.id)
    \/ last'.op \in {"update", "delete"}
         /\ ~(\E i \in DOMAIN products : products[i].key = last'.id)

C2_RejectedIsNoOp ==
    [][ C2_Rejected =>
          /\ ~last'.ok
          /\ last'.saves = 0
          /\ products' = products
          /\ file' = file ]_vars

\* a rejected add of a product that differs from the record kept under its id
C2_Witness ==
    /\ last.op = "add"
    /\ ~last.ok
    /\ \E i \in DOMAIN products :
         /\ products[i].key = last.id
         /\ ~SameFields(products[i].val, last.prod[1])

\* C3: add_product of a product whose id is absent returns True, leaves every
\* other entry as it was, and get_product with that id then returns a product
\* with the same six fields.
C3_AddThenGet ==
    [][ /\ (last'.op = "add" /\ ~(\E i \in DOMAIN products : products[i].key = last'.id)) =>
             /\ last'.ok
             /\ Others(products', last'.id) = products
             /\ \E i \in DOMAIN products' :
                  /\ products'[i].key = last'.id
                  /\ SameFields(products'[i].val, last'.prod[1])
             /\ get_product(products', last'.id) # None
             /\ SameFields(get_product(products', last'.id)[1], last'.prod[1])
        /\ (last.op = "add" /\ last.ok /\ last'.op = "get" /\ last'.id = last.id) =>
             /\ last'.out # None
             /\ SameFields(last'.out[1], last.prod[1]) ]_vars

\* a successful add into a store that already held another product
C3_Witness ==
    /\ last.op = "add"
    /\ last.ok
    /\ Len(products) = 2
    /\ products[2].key = last.id

\* C4: update_product on a present id returns True and changes exactly the
\* fields passed as non-None (a supplied 0 or empty string is applied) plus
\* last_updated, which becomes the current timestamp; the fields not supplied,
\* product_id, the key order and every other product stay as they were.
C4_UpdateFrame ==
    [][ (last'.op = "update" /\ (\E i \in DOMAIN products : products[i].key = last'.id)) =>
          /\ last'.ok
          /\ Len(products') = Len(products)
          /\ \A i \in DOMAIN products :
               /\ products'[i].key = products[i].key
               /\ products[i].key # last'.id => products'[i].val = products[i].val
               /\ products[i].key = last'.id =>
                    LET old == products[i].val
                        new == products'[i].val
                        a   == last'.args
                    IN /\ new.product_id = old.product_id
                       /\ new.name = (IF a.name = None THEN old.name ELSE a.name[1])
                       /\ new.category =
                            (IF a.category = None THEN old.category ELSE a.category[1])
                       /\ new.quantity =
                            (IF a.quantity = None THEN old.quantity ELSE a.quantity[1])
                       /\ new.price = (IF a.price = None THEN old.price ELSE a.price[1])
                       /\ new.last_updated = strftime(clock) ]_vars

\* an update that supplied the empty name and quantity 0 and nothing else,
\* applied next to another product
C4_Witness ==
    /\ last.op = "update"
    /\ last.ok
    /\ last.args.name = Some(EmptyStr)
    /\ last.args.quantity = Some(0)
    /\ last.args.category = None
    /\ last.args.price = None
    /\ Len(products) = 2
    /\ \E i \in DOMAIN products :
         /\ products[i].key = last.id
         /\ products[i].val.name = EmptyStr
         /\ products[i].val.quantity = 0
         /\ products[i].val.category = Other
         /\ products[i].val.price = 999

\* C5: delete_product on a present id returns True, removes exactly that
\* entry and persists; right after it get_product with that id returns None,
\* another delete_product with it returns False and add_product with it
\* succeeds.
C5_Delete ==
    [][ /\ (last'.op = "delete" /\ (\E i \in DOMAIN products : products[i].key = last'.id)) =>
             /\ last'.ok
             /\ products' = Others(products, last'.id)
             /\ \A i \in DOMAIN products' : products'[i].key # last'.id
             /\ FileHolds(file', products')
             /\ get_product(products', last'.id) = None
        /\ (last.op = "delete" /\ last.ok /\ last'.id = last.id) =>
             /\ last'.op = "get" => last'.out = None
             /\ last'.op = "delete" => ~last'.ok
             /\ last'.op = "add" => last'.ok ]_vars

\* a successful delete of the first of two products: the second one stays
C5_Witness ==
    /\ last.op = "delete"
    /\ last.ok
    /\ last.id = "P1"
    /\ Len(products) = 1
    /\ products[1].key = "P2"

\* C6: saving any reachable mapping and loading the file into a fresh store,
\* at whatever time, gives a mapping with the same product ids and, for each
\* id, the same six fields; last_updated is not re-stamped.
C6_RoundTrip ==
    alive =>
        \A t \in 0..MaxClock :
            LET r == load_inventory(<<>>, save_inventory(products), t)
            IN /\ r.raised = ""
               /\ ~r.diag
               /\ Len(r.products) = Len(products)
               /\ {r.products[j].key : j \in DOMAIN r.products}
                     = {products[i].key : i \in DOMAIN products}
               /\ \A i \in DOMAIN products : \A j \in DOMAIN r.products :
                    r.products[j].key = products[i].key =>
                        SameFields(r.products[j].val, products[i].val)

\* two products are stored, one of them stamped in an earlier second than
\* the current one
C6_Witness ==
    /\ alive
    /\ last.op \in Mutators
    /\ last.ok
    /\ Len(products) = 2
    /\ \E i \in DOMAIN products : products[i].val.last_updated # strftime(clock)

\* the content of f does not parse
DoesNotParse(f) == f.kind \in {"undecodable", "invalid"}

\* f parses to an object with a record that lacks a required field
HasShortRecord(f) ==
    /\ f.kind = "json"
    /\ f.doc.t = "object"
    /\ \E j \in DOMAIN f.doc.members :
         \/ f.doc.members[j].val.t # "object"
         \/ ~(FieldSet \subseteq DOMAIN f.doc.members[j].val.fields)

\* C7: load_inventory on a malformed backing file (content that does not
\* parse, or that has a record missing a required field) raises nothing: it
\* leaves the store with an empty mapping and surfaces a diagnostic.
C7_MalformedLoadIsNotFatal ==
    (last.op = "construct" /\ (DoesNotParse(file) \/ HasShortRecord(file))) =>
        /\ last.raised = ""
        /\ alive
        /\ products = <<>>
        /\ last.diag

\* C8: in every state of the store, each record is stored under its own
\* product_id, no two records carry the same product_id, and every record
\* has all six fields populated.
C8_UniqueAndPopulated ==
    alive =>
        /\ \A i \in DOMAIN products : products[i].val.product_id = products[i].key
        /\ \A i, j \in DOMAIN products :
             products[i].val.product_id = products[j].val.product_id => i = j
        /\ \A i \in DOMAIN products :
             /\ DOMAIN products[i].val = FieldSet
             /\ products[i].val.last_updated # NoStamp

SameLetter(c, d) ==
    \/ c = d
    \/ \E i \in DOMAIN Upper : {c, d} = {Upper[i], Lower[i]}

\* q occurs in s as a contiguous run of characters, case ignored
OccursIn(q, s) ==
    \E a \in 0..Len(s) :
        /\ a + Len(q) <= Len(s)
        /\ \A j \in 1..Len(q) : SameLetter(q[j], s[a + j])

\* C10: search_products(query) returns exactly the stored products whose name
\* or category contains the query as a contiguous substring, case ignored,
\* each once.
C10_Search ==
    [][ last'.op = "search" =>
          /\ \A k \in DOMAIN last'.out :
               \E i \in DOMAIN products :
                  /\ products[i].val = last'.out[k]
                  /\ \/ OccursIn(last'.query, products[i].val.name)
                     \/ OccursIn(last'.query, products[i].val.category)
          /\ Len(last'.out) =
               Cardinality({i \in DOMAIN products :
                              \/ OccursIn(last'.query, products[i].val.name)
                              \/ OccursIn(last'.query, products[i].val.category)})
          /\ \A i \in DOMAIN products :
               (\/ OccursIn(last'.query, products[i].val.name)
                \/ OccursIn(last'.query, products[i].val.category)) =>
                  \E k \in DOMAIN last'.out : last'.out[k] = products[i].val ]_vars

\* search("WID") on a store holding Widget and Gadget returns only Widget
C10_Witness ==
    /\ last.op = "search"
    /\ last.query = <<"W","I","D">>
    /\ Len(products) = 2
    /\ \E i, j \in DOMAIN products :
         /\ products[i].val.name = Widget
         /\ products[j].val.name = Gadget
    /\ Len(last.out) = 1
    /\ last.out[1].name = Widget

\* C11: a save_inventory that fails inside add_product, update_product or
\* delete_product reaches the caller as an exception, after one attempt; the
\* mutation stays applied in memory, and the backing file is left as it was
\* before the call: it does not reflect the mutation and holds no partial
\* write.
C11_FailedSave ==
    [][ last'.raised = "OSError" =>
          /\ ~last'.ok
          /\ last'.saves = 1
          /\ last'.op = "add" =>
               /\ Others(products', last'.id) = products
               /\ \E i \in DOMAIN products' :
                    /\ products'[i].key = last'.id
                    /\ SameFields(products'[i].val, last'.prod[1])
          /\ last'.op = "update" =>
               \E i \in DOMAIN products' :
                    /\ products'[i].key = last'.id
                    /\ products'[i].val.last_updated = strftime(clock)
                    /\ last'.args.quantity # None =>
                         products'[i].val.quantity = last'.args.quantity[1]
          /\ last'.op = "delete" =>
               /\ products' = Others(products, last'.id)
               /\ products' # products
          /\ file' = file ]_vars

====
